---- MODULE Spec2Model ----
(***************************************************************************)
(* The Slack event webhook of src/mastra/index.ts (handshake, bot filter,   *)
(* duplicate filter, agent invocation, reply post, periodic cache clear)    *)
(* and the Okta tools of src/tools/okta.ts, as state machines.              *)
(***************************************************************************)
EXTENDS Integers, Sequences, FiniteSets, TLC

VARIABLES
  running,          \* the process is up (it exits at startup without a bot token)
  token,            \* SLACK_BOT_TOKEN
  processedEvents,  \* the Set<string> of event ids
  now,              \* wall clock, ms since process start
  clears,           \* number of firings of the setInterval callback so far
  pc,               \* per request: position of the handler
  body,             \* per request: the parsed JSON body
  passedAt,         \* per request: clock and number of clears at a passed duplicate check
  outcome,          \* per request: branch of the handler the request took
  response,         \* per request: the HTTP response handed back, if any
  messageText,      \* per request: the text given to agent.generate
  agentCalls,       \* per request: number of agent.generate calls
  result,           \* per request: what agent.generate resolved to
  posts,            \* per request: the chat.postMessage calls made
  log,              \* console output: set of [kind, req]
  toolCall,         \* the last tool execution: tool id, input, provider answer
  toolResult,       \* what that execution returned or threw
  probe             \* text extraction on its own: [type, text, out]

handlerVars == <<running, token, processedEvents, now, clears, pc, body,
                 passedAt, outcome, response, messageText, agentCalls, result,
                 posts, log>>
toolVars == <<toolCall, toolResult>>
vars == <<running, token, processedEvents, now, clears, pc, body, passedAt,
          outcome, response, messageText, agentCalls, result, posts, log,
          toolCall, toolResult, probe>>

----------------------------------------------------------------------------
(* Bounds of the model *)

MaxReqs == 2        \* requests handled in one run
TicksPerTTL == 2    \* clock steps per EVENT_EXPIRY_MS
MaxPieces == 5      \* pieces of the texts the extraction is applied to
MaxGroups == 2      \* groups in one answer of the group search

Requests == 1..MaxReqs

----------------------------------------------------------------------------
(* JavaScript values *)

\* A field that is absent reads as undefined; `${undefined}` prints "undefined".
Undefined == "undefined"
Null == "null"

Has(rec, f) == f \in DOMAIN rec

\* rec?.f for a string-valued field
Field(rec, f) == IF Has(rec, f) THEN rec[f] ELSE Undefined

\* truthiness of a string-valued expression
Truthy(v) == v # Undefined /\ v # ""

\* a || b
OrElse(a, b) == IF Truthy(a) THEN a ELSE b

----------------------------------------------------------------------------
(* Texts are sequences of characters.  "U" stands for the class [A-Z0-9],   *)
(* " " for whitespace, "h" for any other character.                         *)

Alphabet == {"<", "@", "U", ">", " ", "h"}
IsIdChar(c) == c = "U"
IsSpace(c) == c = " "

RECURSIVE IdRun(_, _)
\* number of consecutive [A-Z0-9] characters of s from position i
IdRun(s, i) ==
  IF i <= Len(s) /\ IsIdChar(s[i]) THEN 1 + IdRun(s, i + 1) ELSE 0

RECURSIVE SpaceRun(_, _)
\* number of consecutive whitespace characters of s from position i
SpaceRun(s, i) ==
  IF i <= Len(s) /\ IsSpace(s[i]) THEN 1 + SpaceRun(s, i + 1) ELSE 0

\* length of the match of /<@[A-Z0-9]+>\s*/ starting at position i, 0 if none
MatchLen(s, i) ==
  IF i + 1 <= Len(s) /\ s[i] = "<" /\ s[i + 1] = "@"
  THEN LET k == IdRun(s, i + 2)
           close == i + 2 + k
       IN IF k >= 1 /\ close <= Len(s) /\ s[close] = ">"
          THEN 3 + k + SpaceRun(s, close + 1)
          ELSE 0
  ELSE 0

RECURSIVE ReplaceFrom(_, _)
\* s.replace(/<@[A-Z0-9]+>\s*/g, "") from position i: one left-to-right pass
ReplaceFrom(s, i) ==
  IF i > Len(s) THEN <<>>
  ELSE LET m == MatchLen(s, i)
       IN IF m > 0 THEN ReplaceFrom(s, i + m)
          ELSE <<s[i]>> \o ReplaceFrom(s, i + 1)

RECURSIVE TrimStart(_)
TrimStart(s) ==
  IF s # <<>> /\ IsSpace(Head(s)) THEN TrimStart(Tail(s)) ELSE s

RECURSIVE TrimEnd(_)
TrimEnd(s) ==
  IF s # <<>> /\ IsSpace(s[Len(s)]) THEN TrimEnd(SubSeq(s, 1, Len(s) - 1)) ELSE s

\* s.trim()
Trim(s) == TrimEnd(TrimStart(s))

\* the regex anchored at the start of the text
StripMentions_LeadingOnly(s) ==
  IF MatchLen(s, 1) > 0 THEN SubSeq(s, MatchLen(s, 1) + 1, Len(s)) ELSE s

\* the regex applied to the text of a mention
StripMentions(s) == ReplaceFrom(s, 1)

\* lines 53-56: the message body built from an event's type and text
ExtractMessageText(type, text) ==
  IF type = "app_mention" THEN Trim(StripMentions(text)) ELSE text

----------------------------------------------------------------------------
(* The inbound requests *)

EVENT_EXPIRY_MS == 5 * 60 * 1000

\* the clock moves in steps and a run lasts until the first firing of the timer
Step == EVENT_EXPIRY_MS \div TicksPerTTL
MaxTime == TicksPerTTL * Step

Hi == <<"h">>
MentionHi == <<"<", "@", "U", ">", " ", "h">>
MentionOnly == <<"<", "@", "U", ">">>

\* an event object; a field that is not given is absent from the record
Event(type, channel) == [type |-> type, channel |-> channel, ts |-> "t1"]
WithText(e, text) == e @@ [text |-> text]
WithMsgId(e, id) == e @@ [client_msg_id |-> id]
WithBot(e, id) == e @@ [bot_id |-> id]

HumanEvents ==
  {Event("message", "C1"), WithText(Event("message", "C1"), <<>>),
   WithText(Event("reaction_added", "C1"), Hi),
   WithText(Event("message", "C1"), Hi),
   WithMsgId(WithText(Event("message", "C2"), Hi), "m1"),
   WithText(Event("app_mention", "C1"), MentionHi),
   WithText(Event("app_mention", "C1"), MentionOnly)}

BotEvents == {WithBot(WithText(Event("message", "C1"), Hi), "B1")}

\* the JSON bodies POSTed to /slack/events
Bodies ==
  {[type |-> "event_callback", event |-> e] : e \in HumanEvents \cup BotEvents}
  \cup {[type |-> "event_callback"]}
  \cup {[type |-> "url_verification", challenge |-> "c1"],
        [type |-> "url_verification", challenge |-> "c2",
         event |-> WithText(Event("message", "C1"), Hi)],
        [type |-> "url_verification", challenge |-> "c1",
         event |-> WithBot(WithText(Event("message", "C1"), Hi), "B1")]}

\* the texts agent.generate may resolve to
Replies == {"reply1", "reply2"}

----------------------------------------------------------------------------
(* The handler of POST /slack/events, branch by branch *)

NoResponse == [sent |-> FALSE]
NotPassed == [time |-> 0 - 1, clears |-> 0 - 1]

\* c.status(200) ... return c.body(null)
Ack == [status |-> 200, body |-> Null]

\* const { type, challenge, event } = body; event?.x reads through an absent event
EventOf(b) == IF Has(b, "event") THEN b.event ELSE <<>>

\* a filter that reads bot_id off the body instead of the event
IsBot_TopLevel(b) == Truthy(Field(b, "bot_id"))

\* event?.bot_id
IsBot(b) == Truthy(Field(EventOf(b), "bot_id"))

\* a handshake test placed after the bot filter
IsHandshake_AfterBotFilter(b) == Field(b, "type") = "url_verification" /\ ~IsBot(b)

\* type === "url_verification"
IsHandshake(b) == Field(b, "type") = "url_verification"

\* c.json({ challenge }): JSON.stringify drops a key whose value is undefined
HandshakeResponse(b) ==
  [status |-> 200,
   json |-> IF Has(b, "challenge") THEN [challenge |-> b.challenge] ELSE <<>>]

\* `${event?.client_msg_id || event?.ts}_${event?.channel}`
EventId(b) ==
  OrElse(Field(EventOf(b), "client_msg_id"), Field(EventOf(b), "ts"))
    \o "_" \o Field(EventOf(b), "channel")

\* a check that never finds the id
IsDuplicate_Never(seen, id) == FALSE

\* processedEvents.has(eventId)
IsDuplicate(seen, id) == id \in seen

\* an id that is checked but not recorded
AddEvent_Forget(seen, id) == seen

\* processedEvents.add(eventId)
AddEvent(seen, id) == seen \cup {id}

\* the test without the event type, as in the first version of the handler
Accepts_AnyType(b) ==
  Has(b, "event") /\ Has(b.event, "text") /\ b.event.text # <<>>

\* event && (event.type === "message" || event.type === "app_mention") && event.text
Accepts(b) ==
  /\ Has(b, "event")
  /\ Field(b.event, "type") \in {"message", "app_mention"}
  /\ Has(b.event, "text") /\ b.event.text # <<>>

\* a reply sent to one fixed channel
PostCall_FixedChannel(r, text) ==
  [auth |-> "Bearer " \o token, channel |-> "C1", text |-> text]

\* the body of the chat.postMessage call made for request r with the agent's text
PostCall(r, text) ==
  [auth |-> "Bearer " \o token, channel |-> Field(EventOf(body[r]), "channel"),
   text |-> text]

\* a catch clause that drops the id so that a redelivery is taken up again
CacheAfterCatch_Forget(seen, id) == seen \ {id}

\* the catch clause does not touch processedEvents
CacheAfterCatch(seen, id) == seen

\* a failure that reaches the framework's error response
CatchResponse_Rethrow == [status |-> 500, body |-> "Internal Server Error"]

\* the catch clause: console.error, then fall through to return c.body(null)
CatchResponse == Ack

Logged(kind, r) == log \cup {[kind |-> kind, req |-> r]}

\* a request comes in and the handler suspends at await c.req.json()
Receive(r, b) ==
  /\ running
  /\ pc[r] = "idle"
  /\ \A q \in Requests : q < r => pc[q] # "idle"
  /\ pc' = [pc EXCEPT ![r] = "json"]
  /\ body' = [body EXCEPT ![r] = b]
  /\ UNCHANGED <<running, token, processedEvents, now, clears, passedAt,
                 outcome, response, messageText, agentCalls, result, posts,
                 log>>
  /\ UNCHANGED <<toolVars, probe>>

\* lines 37-39
HandleHandshake(r) ==
  /\ pc[r] = "json"
  /\ IsHandshake(body[r])
  /\ response' = [response EXCEPT ![r] = HandshakeResponse(body[r])]
  /\ outcome' = [outcome EXCEPT ![r] = "handshake"]
  /\ pc' = [pc EXCEPT ![r] = "done"]
  /\ UNCHANGED <<running, token, processedEvents, now, clears, body, passedAt,
                 messageText, agentCalls, result, posts, log>>
  /\ UNCHANGED <<toolVars, probe>>

\* lines 40-43
HandleBot(r) ==
  /\ pc[r] = "json"
  /\ ~IsHandshake(body[r])
  /\ IsBot(body[r])
  /\ response' = [response EXCEPT ![r] = Ack]
  /\ outcome' = [outcome EXCEPT ![r] = "bot"]
  /\ pc' = [pc EXCEPT ![r] = "done"]
  /\ UNCHANGED <<running, token, processedEvents, now, clears, body, passedAt,
                 messageText, agentCalls, result, posts, log>>
  /\ UNCHANGED <<toolVars, probe>>

\* lines 44-48
HandleDuplicate(r) ==
  /\ pc[r] = "json"
  /\ ~IsHandshake(body[r])
  /\ ~IsBot(body[r])
  /\ IsDuplicate(processedEvents, EventId(body[r]))
  /\ log' = Logged("duplicate", r)
  /\ response' = [response EXCEPT ![r] = Ack]
  /\ outcome' = [outcome EXCEPT ![r] = "duplicate"]
  /\ pc' = [pc EXCEPT ![r] = "done"]
  /\ UNCHANGED <<running, token, processedEvents, now, clears, body, passedAt,
                 messageText, agentCalls, result, posts>>
  /\ UNCHANGED <<toolVars, probe>>

\* lines 44-51 and 81: a new event the handler does not take up
HandleIgnored(r) ==
  /\ pc[r] = "json"
  /\ ~IsHandshake(body[r])
  /\ ~IsBot(body[r])
  /\ ~IsDuplicate(processedEvents, EventId(body[r]))
  /\ ~Accepts(body[r])
  /\ passedAt' = [passedAt EXCEPT ![r] = [time |-> now, clears |-> clears]]
  /\ processedEvents' = AddEvent(processedEvents, EventId(body[r]))
  /\ response' = [response EXCEPT ![r] = Ack]
  /\ outcome' = [outcome EXCEPT ![r] = "no-text"]
  /\ pc' = [pc EXCEPT ![r] = "done"]
  /\ UNCHANGED <<running, token, now, clears, body, messageText,
                 agentCalls, result, posts, log>>
  /\ UNCHANGED <<toolVars, probe>>

\* lines 44-63: a new event is handed to the agent; the handler suspends at
\* await agent.generate(messageText)
HandleForward(r) ==
  /\ pc[r] = "json"
  /\ ~IsHandshake(body[r])
  /\ ~IsBot(body[r])
  /\ ~IsDuplicate(processedEvents, EventId(body[r]))
  /\ Accepts(body[r])
  /\ passedAt' = [passedAt EXCEPT ![r] = [time |-> now, clears |-> clears]]
  /\ processedEvents' = AddEvent(processedEvents, EventId(body[r]))
  /\ messageText' = [messageText EXCEPT
                       ![r] = ExtractMessageText(body[r].event.type, body[r].event.text)]
  /\ log' = Logged("processing", r)
  /\ agentCalls' = [agentCalls EXCEPT ![r] = @ + 1]
  /\ outcome' = [outcome EXCEPT ![r] = "forwarded"]
  /\ pc' = [pc EXCEPT ![r] = "agent"]
  /\ UNCHANGED <<running, token, now, clears, body, response, result, posts>>
  /\ UNCHANGED <<toolVars, probe>>

\* lines 63-75: agent.generate resolves; the handler calls fetch and suspends on it
AgentReturn(r, text) ==
  /\ pc[r] = "agent"
  /\ result' = [result EXCEPT ![r] = text]
  /\ posts' = [posts EXCEPT ![r] = Append(@, PostCall(r, text))]
  /\ pc' = [pc EXCEPT ![r] = "post"]
  /\ UNCHANGED <<running, token, processedEvents, now, clears, body, passedAt,
                 outcome, response, messageText, agentCalls, log>>
  /\ UNCHANGED <<toolVars, probe>>

\* lines 63, 76-81: agent.generate rejects
AgentThrow(r) ==
  /\ pc[r] = "agent"
  /\ log' = Logged("error", r)
  /\ processedEvents' = CacheAfterCatch(processedEvents, EventId(body[r]))
  /\ response' = [response EXCEPT ![r] = CatchResponse]
  /\ pc' = [pc EXCEPT ![r] = "done"]
  /\ UNCHANGED <<running, token, now, clears, body, passedAt, outcome,
                 messageText, agentCalls, result, posts>>
  /\ UNCHANGED <<toolVars, probe>>

\* lines 65-75, 81: fetch resolves (whatever the HTTP status)
PostReturn(r) ==
  /\ pc[r] = "post"
  /\ response' = [response EXCEPT ![r] = Ack]
  /\ pc' = [pc EXCEPT ![r] = "done"]
  /\ UNCHANGED <<running, token, processedEvents, now, clears, body, passedAt,
                 outcome, messageText, agentCalls, result, posts, log>>
  /\ UNCHANGED <<toolVars, probe>>

\* lines 65-81: fetch rejects
PostThrow(r) ==
  /\ pc[r] = "post"
  /\ log' = Logged("error", r)
  /\ processedEvents' = CacheAfterCatch(processedEvents, EventId(body[r]))
  /\ response' = [response EXCEPT ![r] = CatchResponse]
  /\ pc' = [pc EXCEPT ![r] = "done"]
  /\ UNCHANGED <<running, token, now, clears, body, passedAt, outcome,
                 messageText, agentCalls, result, posts>>
  /\ UNCHANGED <<toolVars, probe>>

\* the time at which the setInterval callback fires next
NextClear == (clears + 1) * EVENT_EXPIRY_MS

\* time passes; a timer that is due fires before the clock moves on, and reading
\* a request body takes no time on this clock
Tick ==
  /\ running
  /\ \A r \in Requests : pc[r] # "json"
  /\ now + Step <= MaxTime
  /\ now < NextClear
  /\ now' = now + Step
  /\ UNCHANGED <<running, token, processedEvents, clears, pc, body, passedAt,
                 outcome, response, messageText, agentCalls, result, posts,
                 log>>
  /\ UNCHANGED <<toolVars, probe>>

\* line 19: setInterval(() => processedEvents.clear(), EVENT_EXPIRY_MS)
ClearTimer ==
  /\ running
  /\ now >= NextClear
  /\ processedEvents' = {}
  /\ clears' = clears + 1
  /\ UNCHANGED <<running, token, now, pc, body, passedAt, outcome, response,
                 messageText, agentCalls, result, posts, log>>
  /\ UNCHANGED <<toolVars, probe>>

\* lines 9-19 and what a request starts from
HandlerInit ==
  /\ token \in {Undefined, "xoxb"}
  /\ running = Truthy(token)
  /\ processedEvents = {}
  /\ now = 0
  /\ clears = 0
  /\ pc = [r \in Requests |-> "idle"]
  /\ body = [r \in Requests |-> <<>>]
  /\ passedAt = [r \in Requests |-> NotPassed]
  /\ outcome = [r \in Requests |-> "none"]
  /\ response = [r \in Requests |-> NoResponse]
  /\ messageText = [r \in Requests |-> <<>>]
  /\ agentCalls = [r \in Requests |-> 0]
  /\ result = [r \in Requests |-> Undefined]
  /\ posts = [r \in Requests |-> <<>>]
  /\ log = {}

ToolIdle == toolCall = [tool |-> "none"] /\ toolResult = [kind |-> "none"]
ProbeIdle == probe = [stage |-> "none"]

Init == HandlerInit /\ ToolIdle /\ ProbeIdle

----------------------------------------------------------------------------
(* The Okta tools that change an account *)

UserIds == {"u1", "u2", "u3"}
GroupIds == {"g1", "g2"}

UrlBody == "{\"resetPasswordUrl\":\"https://okta/reset/1\"}"
NotFoundBody == "{\"errorCode\":\"E0000007\"}"
ForbiddenBody == "{\"errorCode\":\"E0000006\"}"
HtmlBody == "<html>Bad Gateway</html>"
PlainBody == "Service Unavailable"

\* what the provider answers: an HTTP status and a body text
Answers ==
  {[status |-> 200, text |-> UrlBody], [status |-> 200, text |-> ""],
   [status |-> 404, text |-> NotFoundBody], [status |-> 403, text |-> ForbiddenBody],
   [status |-> 502, text |-> HtmlBody], [status |-> 503, text |-> PlainBody]}

\* res.ok
ResOk(ans) == ans.status >= 200 /\ ans.status <= 299

\* res.json(): the parsed object, or a SyntaxError for a text that is not JSON
ParseJson(text) ==
  CASE text = UrlBody -> [ok |-> TRUE, value |-> [resetPasswordUrl |-> "https://okta/reset/1"]]
    [] text = NotFoundBody -> [ok |-> TRUE, value |-> [errorCode |-> "E0000007"]]
    [] text = ForbiddenBody -> [ok |-> TRUE, value |-> [errorCode |-> "E0000006"]]
    [] OTHER -> [ok |-> FALSE]

Return(value) == [kind |-> "return", value |-> value]
\* throw new Error(`...`): the message, piece by piece
Throw(parts) == [kind |-> "throw", message |-> parts]

\* resetPassword.execute: no look at res.ok, the URL is read off whatever parses
ResetPasswordExecute(ans) ==
  LET parsed == ParseJson(ans.text)
  IN IF parsed.ok
     THEN Return([resetPasswordUrl |-> Field(parsed.value, "resetPasswordUrl")])
     ELSE Throw(<<"SyntaxError: Unexpected token">>)

\* the execute of lockUser, unlockUser, addUserToGroup and resetMFA
GuardedExecute(ans, failure, done) ==
  IF ~ResOk(ans)
  THEN Throw(<<failure, ans.text>>)
  ELSE Return([success |-> TRUE, message |-> done])

LockUserExecute(ans) ==
  GuardedExecute(ans, "Failed to lock user: ", "User account has been locked")

UnlockUserExecute(ans) ==
  GuardedExecute(ans, "Failed to unlock user: ", "User account has been unlocked")

AddUserToGroupExecute(ans) ==
  GuardedExecute(ans, "Failed to add user to group: ",
                 "User has been added to the group")

ResetMFAExecute(ans) ==
  GuardedExecute(ans, "Failed to reset MFA: ",
                 "MFA factors have been reset. User will need to re-enroll.")

\* the request a tool sends and the answer it got
Call(tool, method, path, ans) ==
  [tool |-> tool, method |-> method, path |-> path, answer |-> ans]

ResetPassword(userId, ans) ==
  /\ running
  /\ toolCall' = Call("reset-password", "POST",
                      "/api/v1/users/" \o userId
                        \o "/lifecycle/reset_password?sendEmail=false", ans)
  /\ toolResult' = ResetPasswordExecute(ans)
  /\ UNCHANGED <<handlerVars, probe>>

LockUser(userId, ans) ==
  /\ running
  /\ toolCall' = Call("lock-user", "POST",
                      "/api/v1/users/" \o userId \o "/lifecycle/suspend", ans)
  /\ toolResult' = LockUserExecute(ans)
  /\ UNCHANGED <<handlerVars, probe>>

UnlockUser(userId, ans) ==
  /\ running
  /\ toolCall' = Call("unlock-user", "POST",
                      "/api/v1/users/" \o userId \o "/lifecycle/unsuspend", ans)
  /\ toolResult' = UnlockUserExecute(ans)
  /\ UNCHANGED <<handlerVars, probe>>

AddUserToGroup(userId, groupId, ans) ==
  /\ running
  /\ toolCall' = Call("add-user-to-group", "PUT",
                      "/api/v1/groups/" \o groupId \o "/users/" \o userId, ans)
  /\ toolResult' = AddUserToGroupExecute(ans)
  /\ UNCHANGED <<handlerVars, probe>>

ResetMFA(userId, ans) ==
  /\ running
  /\ toolCall' = Call("reset-mfa", "POST",
                      "/api/v1/users/" \o userId \o "/lifecycle/reset_factors", ans)
  /\ toolResult' = ResetMFAExecute(ans)
  /\ UNCHANGED <<handlerVars, probe>>

----------------------------------------------------------------------------
(* The group search.  Names are sequences of characters. *)

Dev == <<"d", "e", "v">>
DevCapital == <<"D", "e", "v">>
DevUpper == <<"D", "E", "V">>
DevTeam == <<"D", "e", "v", " ", "T">>
Ops == <<"o", "p", "s">>

GroupNames == {Dev, DevCapital, DevUpper, DevTeam, Ops}

\* String.prototype.toLowerCase, character by character
LowerChar(c) ==
  CASE c = "D" -> "d" [] c = "E" -> "e" [] c = "V" -> "v" [] c = "T" -> "t"
    [] OTHER -> c

ToLowerCase(s) == [i \in 1..Len(s) |-> LowerChar(s[i])]

\* encodeURIComponent on these names: letters stay, a space becomes %20
RECURSIVE EncodeURIComponent(_)
EncodeURIComponent(s) ==
  IF s = <<>> THEN <<>>
  ELSE (IF Head(s) = " " THEN <<"%", "2", "0">> ELSE <<Head(s)>>)
         \o EncodeURIComponent(Tail(s))

\* the groups of an answer, made of their names in the order the provider gives
GroupList(names) ==
  [i \in 1..Len(names) |->
     [id |-> "00g" \o ToString(i), profile |-> [name |-> names[i]]]]

\* the answers to a group search: a list of groups, or a failure
GroupAnswers ==
  {[status |-> 200, groups |-> GroupList(ns)] :
     ns \in UNION {[1..n -> GroupNames] : n \in 0..MaxGroups}}
  \cup {a \in Answers : ~ResOk(a)}

\* null where an object is expected
NullObject == [null |-> TRUE]

\* a test that takes a name the query is only the beginning of
NameMatches_Prefix(name, query) ==
  /\ Len(name) >= Len(query)
  /\ SubSeq(ToLowerCase(name), 1, Len(query)) = ToLowerCase(query)

\* g.profile.name.toLowerCase() === groupName.toLowerCase()
NameMatches(name, query) == ToLowerCase(name) = ToLowerCase(query)

RECURSIVE FindGroup(_, _)
\* groups.find(...) || null: the first group the test takes
FindGroup(groups, query) ==
  IF groups = <<>> THEN NullObject
  ELSE IF NameMatches(Head(groups).profile.name, query) THEN Head(groups)
  ELSE FindGroup(Tail(groups), query)

\* findGroupByName.execute
FindGroupByNameExecute(groupName, ans) ==
  IF ~ResOk(ans)
  THEN Throw(<<"Failed to search groups: ", ans.text>>)
  ELSE Return([group |-> FindGroup(ans.groups, groupName)])

FindGroupByName(groupName, ans) ==
  /\ running
  /\ toolCall' = [tool |-> "find-group-by-name", method |-> "GET",
                  path |-> "/api/v1/groups?q=",
                  query |-> EncodeURIComponent(groupName),
                  groupName |-> groupName, answer |-> ans]
  /\ toolResult' = FindGroupByNameExecute(groupName, ans)
  /\ UNCHANGED <<handlerVars, probe>>

ToolNext ==
  \/ \E u \in UserIds, ans \in Answers : ResetPassword(u, ans)
  \/ \E u \in UserIds, ans \in Answers : LockUser(u, ans)
  \/ \E u \in UserIds, ans \in Answers : UnlockUser(u, ans)
  \/ \E u \in UserIds, g \in GroupIds, ans \in Answers : AddUserToGroup(u, g, ans)
  \/ \E u \in UserIds, ans \in Answers : ResetMFA(u, ans)
  \/ \E n \in GroupNames, ans \in GroupAnswers : FindGroupByName(n, ans)

ToolInit == HandlerInit /\ running = TRUE /\ ToolIdle /\ ProbeIdle

ToolSpec == ToolInit /\ [][ToolNext]_vars

----------------------------------------------------------------------------
(* The text extraction of lines 53-56 on its own, over every short text *)

\* The texts are made of up to MaxPieces pieces, a piece being one character
\* or a whole mention token; event.text is truthy where the extraction runs,
\* so no text is empty.
Pieces == {<<c>> : c \in Alphabet} \cup {MentionOnly}

RECURSIVE Flatten(_)
Flatten(ps) == IF ps = <<>> THEN <<>> ELSE Head(ps) \o Flatten(Tail(ps))

ProbeTexts == {Flatten(ps) : ps \in UNION {[1..n -> Pieces] : n \in 1..MaxPieces}}

ProbeInit ==
  probe \in [stage : {"in"}, type : {"message", "app_mention"}, text : ProbeTexts]

Extract ==
  /\ probe.stage = "in"
  /\ probe' = [stage |-> "out", type |-> probe.type, text |-> probe.text,
               out |-> ExtractMessageText(probe.type, probe.text)]
  /\ UNCHANGED <<handlerVars, toolVars>>

TextInit == HandlerInit /\ running = TRUE /\ ToolIdle /\ ProbeInit

TextSpec == TextInit /\ [][Extract]_vars

----------------------------------------------------------------------------
Next ==
  \/ \E r \in Requests, b \in Bodies : Receive(r, b)
  \/ \E r \in Requests : HandleHandshake(r)
  \/ \E r \in Requests : HandleBot(r)
  \/ \E r \in Requests : HandleDuplicate(r)
  \/ \E r \in Requests : HandleIgnored(r)
  \/ \E r \in Requests : HandleForward(r)
  \/ \E r \in Requests, text \in Replies : AgentReturn(r, text)
  \/ \E r \in Requests : AgentThrow(r)
  \/ \E r \in Requests : PostReturn(r)
  \/ \E r \in Requests : PostThrow(r)
  \/ Tick
  \/ ClearTimer

Spec == Init /\ [][Next]_vars

----------------------------------------------------------------------------
(* Properties of the duplicate filter and of the handshake *)

\* the fingerprint of the event of request r, read off the fields of its body
Fingerprint(r) ==
  LET e == IF "event" \in DOMAIN body[r] THEN body[r].event ELSE <<>>
      id == IF "client_msg_id" \in DOMAIN e /\ e.client_msg_id # ""
            THEN e.client_msg_id
            ELSE IF "ts" \in DOMAIN e THEN e.ts ELSE "undefined"
      ch == IF "channel" \in DOMAIN e THEN e.channel ELSE "undefined"
  IN <<id, ch>>

BotIdSet(r) ==
  "event" \in DOMAIN body[r] /\ "bot_id" \in DOMAIN body[r].event

HandshakeRequest(r) ==
  "type" \in DOMAIN body[r] /\ body[r].type = "url_verification"

Invoked(r) == agentCalls[r] > 0
PassedCheck(r) == passedAt[r] # NotPassed

Distance(a, b) == IF a >= b THEN a - b ELSE b - a

\* C1 as stated: of the events with one fingerprint that come in less than
\* EVENT_EXPIRY_MS apart, at most one is handed to the agent.
C1_AtMostOneWithinTTL ==
  \A r, q \in Requests :
    (r # q /\ Invoked(r) /\ Invoked(q) /\ Fingerprint(r) = Fingerprint(q))
      => Distance(passedAt[r].time, passedAt[q].time) >= EVENT_EXPIRY_MS

\* C1 as amended: of the events with one fingerprint that are checked between
\* two consecutive firings of the clear timer, at most one is handed to the agent.
C1_AtMostOneBetweenClears ==
  \A r, q \in Requests :
    (r # q /\ Invoked(r) /\ Invoked(q) /\ Fingerprint(r) = Fingerprint(q))
      => passedAt[r].clears # passedAt[q].clears

\* a redelivery of a forwarded event, discarded with no timer firing in between
C1_Witness ==
  \E r, q \in Requests :
    /\ r # q /\ Fingerprint(r) = Fingerprint(q)
    /\ Invoked(r) /\ outcome[q] = "duplicate"
    /\ passedAt[r].clears = clears

\* C2 as stated: the acknowledgment of a forwarded event has gone out while the
\* agent invocation or the reply post is still pending.
C2_AckBeforeAgentCompletes ==
  \A r \in Requests : pc[r] \in {"agent", "post"} => response[r] # NoResponse

\* C3: a url_verification request is answered with the challenge it sent, and
\* answering it changes neither the cache nor the agent calls nor the posts.
C3_HandshakeEchoesChallenge ==
  [][\A r \in Requests :
       (pc[r] = "json" /\ pc'[r] # "json" /\ HandshakeRequest(r))
         => /\ pc'[r] = "done"
            /\ response'[r] = [status |-> 200,
                               json |-> [challenge |-> body[r].challenge]]
            /\ processedEvents' = processedEvents
            /\ agentCalls' = agentCalls
            /\ posts' = posts
            /\ log' = log]_vars

\* a handshake answered although its event carries a cached fingerprint
C3_Witness ==
  \E r \in Requests :
    /\ HandshakeRequest(r) /\ pc[r] = "done"
    /\ "event" \in DOMAIN body[r]
    /\ \E id \in processedEvents : id = Fingerprint(r)[1] \o "_" \o Fingerprint(r)[2]
    /\ response[r] = [status |-> 200, json |-> [challenge |-> body[r].challenge]]

\* C4: an event with bot_id set is never handed to the agent, whatever its
\* type, text and fingerprint; dropping it leaves the cache as it was and
\* posts nothing.
C4_BotNeverForwarded ==
  /\ [](\A r \in Requests : BotIdSet(r) => agentCalls[r] = 0 /\ posts[r] = <<>>)
  /\ [][\A r \in Requests :
          (pc[r] = "json" /\ pc'[r] # "json" /\ BotIdSet(r))
            => /\ pc'[r] = "done"
               /\ processedEvents' = processedEvents
               /\ agentCalls' = agentCalls
               /\ posts' = posts]_vars

\* a bot event dropped whose fingerprint is not in the cache afterwards
C4_Witness ==
  \E r \in Requests :
    /\ BotIdSet(r) /\ ~HandshakeRequest(r) /\ pc[r] = "done"
    /\ response[r] = Ack
    /\ processedEvents = {}

\* C5: the duplicate check and the insertion are one step: a request that
\* passes the check has its fingerprint in the cache before the handler
\* suspends, no other handler moves in between, and two requests with one
\* fingerprint never both pass the check unless the timer fired in between.
C5_CheckThenInsertAtomic ==
  /\ [](\A r, q \in Requests :
          (r # q /\ PassedCheck(r) /\ PassedCheck(q)
             /\ Fingerprint(r) = Fingerprint(q))
            => passedAt[r].clears # passedAt[q].clears)
  /\ [][\A r \in Requests :
          (pc[r] = "json" /\ PassedCheck(r)')
            => /\ EventId(body[r]) \notin processedEvents
               /\ EventId(body[r]) \in processedEvents'
               /\ \A q \in Requests \ {r} : pc'[q] = pc[q]]_vars

\* two requests with one fingerprint in flight at once: one has passed the
\* check and waits for the agent, the other has not been looked at yet
C5_Witness ==
  \E r, q \in Requests :
    /\ r # q /\ Fingerprint(r) = Fingerprint(q)
    /\ pc[r] = "agent" /\ pc[q] = "json"
    /\ ~HandshakeRequest(q) /\ ~BotIdSet(q)
    /\ passedAt[r].clears = clears

----------------------------------------------------------------------------
(* Properties of the tools, of forwarding and of the reply *)

MutatingTools ==
  {"reset-password", "lock-user", "unlock-user", "add-user-to-group", "reset-mfa"}

Carries(message, piece) == \E i \in DOMAIN message : message[i] = piece

\* C6 as stated: a mutating tool that gets a non-success status throws an
\* error that carries the status code and the response body, and returns
\* no payload.
C6_MutatingToolsFailHard ==
  (toolCall.tool \in MutatingTools
     /\ (toolCall.answer.status < 200 \/ toolCall.answer.status > 299))
    => /\ toolResult.kind = "throw"
       /\ Carries(toolResult.message, ToString(toolCall.answer.status))
       /\ Carries(toolResult.message, toolCall.answer.text)

Outcomes == {"handshake", "bot", "duplicate", "no-text", "forwarded"}

\* what the gate asks of a request before its event goes to the agent
Eligible(r) ==
  /\ ~HandshakeRequest(r)
  /\ ~BotIdSet(r)
  /\ ~\E id \in processedEvents : id = Fingerprint(r)[1] \o "_" \o Fingerprint(r)[2]
  /\ "event" \in DOMAIN body[r]
  /\ body[r].event.type \in {"message", "app_mention"}
  /\ "text" \in DOMAIN body[r].event /\ Len(body[r].event.text) > 0

\* C7: the agent is called for a request exactly when it is no handshake, its
\* event is not from a bot, its fingerprint is not cached, its type is message
\* or app_mention and it has text; a request ends in one of the five outcomes,
\* and in every outcome but forwarded there is no agent call and no post.
C7_ForwardedIffEligible ==
  /\ [](\A r \in Requests :
          /\ pc[r] \in {"idle", "json"} <=> outcome[r] = "none"
          /\ pc[r] \notin {"idle", "json"} => outcome[r] \in Outcomes
          /\ pc[r] \in {"agent", "post"} => outcome[r] = "forwarded"
          /\ outcome[r] # "forwarded" => agentCalls[r] = 0 /\ posts[r] = <<>>
          /\ outcome[r] = "forwarded" => agentCalls[r] > 0)
  /\ [][\A r \in Requests :
          /\ (pc[r] = "json" /\ pc'[r] # "json")
               => (agentCalls'[r] > agentCalls[r] <=> Eligible(r))
          /\ pc[r] # "json" => agentCalls'[r] = agentCalls[r]
          /\ outcome[r] # "none" => outcome'[r] = outcome[r]]_vars

\* one event forwarded and answered, another of an unsupported type dropped
C7_Witness ==
  \E r, q \in Requests :
    /\ outcome[r] = "forwarded" /\ pc[r] = "done" /\ Len(posts[r]) = 1
    /\ outcome[q] = "no-text" /\ pc[q] = "done"
    /\ "event" \in DOMAIN body[q]
    /\ body[q].event.type = "reaction_added" /\ "text" \in DOMAIN body[q].event

\* C8: a forwarded event gets one agent call; once the agent has returned
\* there is one chat.postMessage call, to the channel of that event and with
\* the text of that call; with no return there is no post; nothing is retried.
C8_OneCallOnePost ==
  \A r \in Requests :
    /\ agentCalls[r] <= 1 /\ Len(posts[r]) <= 1
    /\ outcome[r] = "forwarded" => agentCalls[r] = 1
    /\ result[r] = Undefined => posts[r] = <<>>
    /\ result[r] # Undefined =>
         /\ agentCalls[r] = 1
         /\ Len(posts[r]) = 1
         /\ posts[r][1].channel = body[r].event.channel
         /\ posts[r][1].text = result[r]

\* two forwarded events in flight at once, in two channels, with two replies
C8_Witness ==
  \E r, q \in Requests :
    /\ pc[r] = "post" /\ pc[q] = "post"
    /\ posts[r][1].channel # posts[q][1].channel
    /\ posts[r][1].text # posts[q][1].text

ErrorLogged(r) == [kind |-> "error", req |-> r] \in log

\* C9: a failure of the agent call or of the reply post is caught and logged;
\* the request ends with the empty 200 acknowledgment and the process stays up.
C9_FailuresCaughtAndLogged ==
  /\ [](\A r \in Requests :
          /\ ErrorLogged(r) =>
               pc[r] = "done" /\ response[r] = [status |-> 200, body |-> Null]
          /\ (pc[r] = "done" /\ outcome[r] = "forwarded" /\ result[r] = Undefined)
               => ErrorLogged(r)
          /\ response[r] # NoResponse => response[r].status = 200)
  /\ [][/\ running => running'
        /\ \A r \in Requests :
             (pc[r] \in {"agent", "post"} /\ pc'[r] = "done")
               => response'[r] = [status |-> 200, body |-> Null]]_vars

\* a request whose handling failed, and a later one served to the end
C9_Witness ==
  \E r, q \in Requests :
    /\ r < q /\ ErrorLogged(r) /\ result[r] # Undefined
    /\ ~ErrorLogged(q) /\ pc[q] = "done" /\ outcome[q] = "forwarded"
    /\ response[q] = Ack

----------------------------------------------------------------------------
(* Properties of the text handed to the agent *)

\* positions i..e of s hold a mention token: <@, one or more of [A-Z0-9], >
TokenSpan(s, i, e) ==
  /\ 1 <= i /\ i + 3 <= e /\ e <= Len(s)
  /\ s[i] = "<" /\ s[i + 1] = "@" /\ s[e] = ">"
  /\ \A k \in (i + 2)..(e - 1) : s[k] = "U"

\* position p lies in a mention token, or in the whitespace right after one
InMention(s, p) ==
  \E i \in 1..p, e \in 1..Len(s) :
    /\ TokenSpan(s, i, e)
    /\ \/ p <= e
       \/ \A k \in (e + 1)..p : s[k] = " "

\* the characters of s at the positions of ps, in order
Pick(s, ps) ==
  [k \in 1..Cardinality(ps) |->
     s[CHOOSE p \in ps : Cardinality({q \in ps : q <= p}) = k]]

\* s from its first to its last character that is not whitespace
Inner(s) ==
  LET ns == {p \in 1..Len(s) : s[p] # " "}
  IN Pick(s, {p \in 1..Len(s) : \E a, b \in ns : a <= p /\ p <= b})

\* s without its mention tokens and the whitespace that follows them
WithoutMentions(s) == Pick(s, {p \in 1..Len(s) : ~InMention(s, p)})

\* s without the mention token it starts with, if it starts with one
WithoutLeadingMention(s) ==
  Pick(s, {p \in 1..Len(s) :
             ~\E e \in 1..Len(s) :
                /\ TokenSpan(s, 1, e)
                /\ (p <= e \/ \A k \in (e + 1)..p : s[k] = " ")})

\* C10 as stated: for a mention the agent gets the text without its leading
\* mention token (surrounding whitespace aside); for a plain message the text
\* as it is.
C10_LeadingMentionRemoved ==
  probe.stage = "out" =>
    probe.out = IF probe.type = "app_mention"
                THEN Inner(WithoutLeadingMention(probe.text))
                ELSE probe.text

\* C10 as amended: for a mention the agent gets the text without any of its
\* mention tokens, wherever they stand, without the whitespace after each and
\* without whitespace at either end; for a plain message the text as it is.
C10_EveryMentionRemoved ==
  probe.stage = "out" =>
    probe.out = IF probe.type = "app_mention"
                THEN Inner(WithoutMentions(probe.text))
                ELSE probe.text

\* "<@U123ABC> reset my password" is forwarded as "reset my password"
C10_Witness ==
  /\ probe.stage = "out" /\ probe.type = "app_mention"
  /\ probe.text = <<"<", "@", "U", ">", " ", "h", " ", "h">>
  /\ probe.out = <<"h", " ", "h">>

----------------------------------------------------------------------------
(* Properties of the group search *)

\* two characters that are one letter in two cases
CasePairs == {<<"d", "D">>, <<"e", "E">>, <<"v", "V">>, <<"t", "T">>}

\* a and b are the same name, letter case aside
SameNameIgnoringCase(a, b) ==
  /\ Len(a) = Len(b)
  /\ \A i \in 1..Len(a) :
       a[i] = b[i] \/ <<a[i], b[i]>> \in CasePairs \/ <<b[i], a[i]>> \in CasePairs

\* C11: after a successful search find-group-by-name returns one of the
\* candidates whose whole name is the query, letter case aside, and returns
\* null, not an error, when no candidate has such a name.
C11_FindGroupExactIgnoringCase ==
  (toolCall.tool = "find-group-by-name" /\ toolCall.answer.status = 200)
    => LET cands == toolCall.answer.groups
           hits == {i \in 1..Len(cands) :
                      SameNameIgnoringCase(cands[i].profile.name, toolCall.groupName)}
       IN /\ toolResult.kind = "return"
          /\ hits = {} => toolResult.value.group = [null |-> TRUE]
          /\ hits # {} => \E i \in hits : toolResult.value.group = cands[i]

\* "dev" searched among "Dev T" and "Dev": the second is returned
C11_Witness ==
  /\ toolCall.tool = "find-group-by-name"
  /\ toolCall.groupName = <<"d", "e", "v">>
  /\ toolCall.answer.status = 200
  /\ Len(toolCall.answer.groups) = 2
  /\ toolCall.answer.groups[1].profile.name = <<"D", "e", "v", " ", "T">>
  /\ toolResult.kind = "return"
  /\ toolResult.value.group = toolCall.answer.groups[2]

----------------------------------------------------------------------------
(* Properties of the cache over failures, and of the text the agent gets *)

CacheKey(r) == Fingerprint(r)[1] \o "_" \o Fingerprint(r)[2]

\* r passed the duplicate check and the timer has not fired since
PassedSinceClear(r) == PassedCheck(r) /\ passedAt[r].clears = clears

\* C12: only the timer takes a fingerprint out of the cache; the fingerprint of
\* a forwarded event stays cached when the agent call or the post fails, and a
\* redelivery before the next firing of the timer is dropped as a duplicate.
C12_OnlyTimerRemoves ==
  /\ [](\A r \in Requests : PassedSinceClear(r) => CacheKey(r) \in processedEvents)
  /\ [][/\ ~(processedEvents \subseteq processedEvents')
             => (processedEvents' = {} /\ clears' = clears + 1 /\ pc' = pc)
        /\ \A q \in Requests :
             (/\ pc[q] = "json" /\ pc'[q] # "json"
              /\ ~HandshakeRequest(q) /\ ~BotIdSet(q)
              /\ \E r \in Requests \ {q} :
                   PassedSinceClear(r) /\ Fingerprint(r) = Fingerprint(q))
               => /\ outcome'[q] = "duplicate"
                  /\ agentCalls' = agentCalls
                  /\ posts' = posts]_vars

\* the handling of a forwarded event has failed, and a redelivery of it that
\* came in before the next firing of the timer has been dropped
C12_Witness ==
  \E r, q \in Requests :
    /\ r # q /\ Fingerprint(r) = Fingerprint(q)
    /\ ErrorLogged(r) /\ pc[r] = "done" /\ PassedSinceClear(r)
    /\ outcome[q] = "duplicate" /\ agentCalls[q] = 0
    /\ CacheKey(r) \in processedEvents

\* C13 as stated: no event leads to an agent call with an empty message body.
C13_ForwardedTextNotEmpty ==
  \A r \in Requests : agentCalls[r] > 0 => Len(messageText[r]) > 0

====
